---- MODULE Spec2Model ----
(***************************************************************************)
(* Model of the mjai-api relay server (src/server.js).                      *)
(*                                                                         *)
(* The server is a set of stateless Express handlers:                       *)
(*   POST /api/chat          streaming variant      (lines 27-91)          *)
(*   POST /api/chat          non-streaming variant  (lines 323-374)        *)
(*   POST /api/tts                                  (lines 93-123)         *)
(*   POST /api/voice-design                         (lines 126-211)        *)
(*   POST /api/stt                                  (lines 214-291)        *)
(* One request is followed from its arrival to the end of its handler.     *)
(* A JavaScript string built by a template literal is a sequence of its    *)
(* pieces; `undefined` is the value Undefined; a value is truthy when it   *)
(* is neither undefined nor the empty string (request fields are strings). *)
(***************************************************************************)
EXTENDS Integers, Sequences, FiniteSets, TLC

VARIABLES env, pc, req, res, calls, stream, provider, outgoing, uncaught

vars == <<env, pc, req, res, calls, stream, provider, outgoing, uncaught>>

(***************************************************************************)
(* Bounds of the model.                                                    *)
(***************************************************************************)
\* longest upstream token stream that is explored
MaxStreamLen == 3
\* how far beyond the upper length limit descriptions are explored
LenSlack == 1

(***************************************************************************)
(* Program constants.                                                      *)
(***************************************************************************)
\* server.js:148  voice_description.length < 20
MinDescLen == 20
\* server.js:148  voice_description.length > 1000
MaxDescLen == 1000

(***************************************************************************)
(* JavaScript values.                                                      *)
(***************************************************************************)
Undefined == "<undefined>"

Truthy(v) == v # Undefined /\ v # ""

\* a || b
OrElse(a, b) == IF Truthy(a) THEN a ELSE b

\* request field values: absent, empty, or a non-empty string
NameValues == {Undefined, "", "Bob"}
TextValues == {Undefined, "", "text"}
FlagValues == {Undefined, "", "false", "true"}
ModelValues == {Undefined, "", "scribe_v2"}
LangValues == {Undefined, "", "fr"}
SpeakerValues == {Undefined, "", "0", "2"}

\* deltas the language model may produce
Tokens == {"Hel", "lo"}

RECURSIVE SeqsUpTo(_, _)
SeqsUpTo(S, n) ==
    IF n = 0 THEN {<<>>}
    ELSE LET shorter == SeqsUpTo(S, n - 1)
         IN  shorter \cup {Append(s, x) : s \in {t \in shorter : Len(t) = n - 1}, x \in S}


(***************************************************************************)
(* The HTTP response object (Express `res`).                               *)
(* statusCode starts at 200 (Node's default); headers go out with the      *)
(* first body byte; a JSON body is a record of string pieces.              *)
(***************************************************************************)
NoJson == [response |-> <<>>, errorFlag |-> FALSE, error |-> <<>>,
           details |-> <<>>, data |-> Undefined]

FreshRes == [statusCode |-> 200, headersSent |-> FALSE, finished |-> FALSE,
             contentType |-> Undefined, json |-> NoJson, events |-> <<>>]

\* res.status(code)
ResStatus(r, code) == [r EXCEPT !.statusCode = code]

\* res.setHeader('Content-Type', type)
ResSetHeader(r, type) == [r EXCEPT !.contentType = type]

\* faulty res.write: the chunk is put in front of what was already written
ResWrite_Prepend(r, chunk) ==
    [r EXCEPT !.headersSent = TRUE, !.events = <<chunk>> \o r.events]

\* res.write(chunk): the first write flushes the headers
ResWrite(r, chunk) ==
    [r EXCEPT !.headersSent = TRUE, !.events = Append(r.events, chunk)]

\* res.end()
ResEnd(r) == [r EXCEPT !.headersSent = TRUE, !.finished = TRUE]

\* res.json(obj) / res.send(buf): Content-Type defaults when unset, the body
\* is sent and the response ends.  Only legal while no header has gone out.
ResJson(r, obj) ==
    [r EXCEPT !.contentType = IF r.contentType = Undefined
                              THEN "application/json" ELSE r.contentType,
              !.json = obj, !.headersSent = TRUE, !.finished = TRUE]

\* res.send(buf) with a Buffer body
ResSend(r, buf) ==
    [r EXCEPT !.json = [NoJson EXCEPT !.data = buf],
              !.headersSent = TRUE, !.finished = TRUE]

\* { error: <pieces> }
ErrorJson(pieces) == [NoJson EXCEPT !.error = pieces]

\* { error: <pieces>, details: <pieces> }
ErrorDetailsJson(pieces, det) == [NoJson EXCEPT !.error = pieces, !.details = det]

(***************************************************************************)
(* The providers.  A call either fails without an HTTP response (network)  *)
(* or is answered with a status and a payload.                             *)
(***************************************************************************)
ProviderStatuses == {200, 400, 401, 500}
Payloads == {"", "{payload}"}

NoProvider == [kind |-> "none", status |-> 0, data |-> Undefined]
NetworkFailure == [kind |-> "network", status |-> 0, data |-> Undefined]
HttpAnswers == {[kind |-> "http", status |-> s, data |-> d] :
                    s \in ProviderStatuses, d \in Payloads}

\* response.ok (fetch) / axios' default validateStatus
StatusOk(s) == s >= 200 /\ s <= 299

\* response.statusText
StatusText(s) ==
    CASE s = 200 -> "OK"
      [] s = 400 -> "Bad Request"
      [] s = 401 -> "Unauthorized"
      [] OTHER   -> "Internal Server Error"

NetworkMessage == <<"Network Error">>

\* axiosError.message of a rejected HTTP answer
AxiosMessage(s) == <<"Request failed with status code ", ToString(s)>>

(***************************************************************************)
(* Requests.  Each handler reads its own fields; the others stay absent.    *)
(***************************************************************************)
NoDescription == [present |-> FALSE, length |-> 0]

NoReq == [handler |-> "none",
          playerName |-> Undefined, playerDescription |-> Undefined,
          mjMessage |-> Undefined,
          voice_settings |-> Undefined,
          voice_description |-> NoDescription,
          file |-> FALSE, model_id |-> Undefined, language_code |-> Undefined,
          num_speakers |-> Undefined, diarize |-> Undefined,
          tag_audio_events |-> Undefined]

NoStream == [tokens |-> <<>>, pos |-> 0, fails |-> FALSE]

\* the server takes a request when it is not inside a handler
Accepting == pc = "idle"

\* state common to the start of every handler
Begin(r) ==
    /\ Accepting
    /\ req' = r
    /\ stream' = NoStream
    /\ provider' = NoProvider
    /\ uncaught' = Undefined
    /\ UNCHANGED env

(***************************************************************************)
(* POST /api/chat                                                          *)
(***************************************************************************)
ChatRequests ==
    {[NoReq EXCEPT !.handler = h, !.playerName = n, !.playerDescription = d,
                   !.mjMessage = m] :
        h \in {"chat-stream", "chat"}, n \in NameValues,
        d \in TextValues, m \in TextValues}

\* faulty validation: mjMessage is not checked
ChatMissingFields_NoMessage(body) ==
    \/ ~Truthy(body.playerName)
    \/ ~Truthy(body.playerDescription)

\* !playerName || !playerDescription || !mjMessage
ChatMissingFields(body) ==
    \/ ~Truthy(body.playerName)
    \/ ~Truthy(body.playerDescription)
    \/ ~Truthy(body.mjMessage)

MissingFieldsError ==
    <<"Missing required fields: playerName, playerDescription, mjMessage">>

OpenAiKeyError == <<"Server misconfiguration: OPENAI_API_KEY missing">>

\* `*${name} nods thoughtfully*` with name = req.body?.playerName || 'Player'
fallbackResponse(body) ==
    <<"*", OrElse(body.playerName, "Player"), " nods thoughtfully*">>

\* { response: fallbackResponse, error: true }
FallbackJson(body) ==
    [NoJson EXCEPT !.response = fallbackResponse(body), !.errorFlag = TRUE]

\* `data: ${JSON.stringify({ token: delta })}\n\n`
TokenEvent(delta) == <<"data: ", [key |-> "token", value |-> delta], "\n\n">>

\* `data: ${JSON.stringify({ done: true })}\n\n`
DoneEvent == <<"data: ", [key |-> "done", value |-> "true"], "\n\n">>

\* the catch block of both chat handlers: res.status(200).json(fallback).
\* Once a header has gone out res.json throws ERR_HTTP_HEADERS_SENT inside
\* the catch block and the handler's promise rejects.
ChatCatch ==
    IF res.headersSent
    THEN /\ res' = ResStatus(res, 200)
         /\ uncaught' = "ERR_HTTP_HEADERS_SENT"
         /\ pc' = "rejected"
    ELSE /\ res' = ResJson(ResStatus(res, 200), FallbackJson(req))
         /\ uncaught' = uncaught
         /\ pc' = "done"

\* lines 28-63 and 324-359: validation, credential check, start of the call
ChatReceive ==
    \E r \in ChatRequests :
        /\ Begin(r)
        /\ IF ChatMissingFields(r)
           THEN /\ res' = ResJson(ResStatus(FreshRes, 400), ErrorJson(MissingFieldsError))
                /\ calls' = 0
                /\ outgoing' = <<>>
                /\ pc' = "done"
           ELSE IF ~env.OPENAI_API_KEY
           THEN /\ res' = ResJson(ResStatus(FreshRes, 500), ErrorJson(OpenAiKeyError))
                /\ calls' = 0
                /\ outgoing' = <<>>
                /\ pc' = "done"
           ELSE /\ res' = FreshRes
                /\ calls' = calls + 1
                /\ outgoing' = <<[name |-> "system", value |-> r.playerDescription],
                                 [name |-> "prompt", value |-> r.mjMessage]>>
                /\ pc' = IF r.handler = "chat-stream" THEN "streamText" ELSE "generateText"

\* line 57 resolves; lines 66-69 set the event-stream headers
StreamTextResolves ==
    /\ pc = "streamText"
    /\ \E ts \in SeqsUpTo(Tokens, MaxStreamLen), f \in BOOLEAN :
           stream' = [tokens |-> ts, pos |-> 0, fails |-> f]
    /\ res' = ResSetHeader(res, "text/event-stream")
    /\ pc' = "textStream"
    /\ UNCHANGED <<env, req, calls, provider, outgoing, uncaught>>

\* line 57 throws: catch block, lines 81-90
StreamTextThrows ==
    /\ pc = "streamText"
    /\ provider' = NetworkFailure
    /\ ChatCatch
    /\ UNCHANGED <<env, req, calls, stream, outgoing>>

\* lines 74-76: one iteration of the for-await loop
StreamDelta ==
    /\ pc = "textStream"
    /\ stream.pos < Len(stream.tokens)
    /\ res' = ResWrite(res, TokenEvent(stream.tokens[stream.pos + 1]))
    /\ stream' = [stream EXCEPT !.pos = stream.pos + 1]
    /\ UNCHANGED <<env, pc, req, calls, provider, outgoing, uncaught>>

\* lines 78-80: the stream is exhausted
StreamEnd ==
    /\ pc = "textStream"
    /\ stream.pos = Len(stream.tokens)
    /\ ~stream.fails
    /\ res' = ResEnd(ResWrite(res, DoneEvent))
    /\ provider' = [kind |-> "http", status |-> 200, data |-> Undefined]
    /\ pc' = "done"
    /\ UNCHANGED <<env, req, calls, stream, outgoing, uncaught>>

\* the iterator throws inside the loop: catch block, lines 81-90
StreamThrows ==
    /\ pc = "textStream"
    /\ stream.pos = Len(stream.tokens)
    /\ stream.fails
    /\ provider' = NetworkFailure
    /\ ChatCatch
    /\ UNCHANGED <<env, req, calls, stream, outgoing>>

GeneratedTexts == {"", "Bob grunts."}

\* lines 353-363
GenerateTextResolves ==
    /\ pc = "generateText"
    /\ \E text \in GeneratedTexts :
        /\ provider' = [kind |-> "http", status |-> 200, data |-> text]
        /\ res' = ResJson(ResStatus(res, 200), [NoJson EXCEPT !.response = <<text>>])
    /\ pc' = "done"
    /\ UNCHANGED <<env, req, calls, stream, outgoing, uncaught>>

\* line 353 throws: catch block, lines 364-373
GenerateTextThrows ==
    /\ pc = "generateText"
    /\ provider' = NetworkFailure
    /\ ChatCatch
    /\ UNCHANGED <<env, req, calls, stream, outgoing>>

(***************************************************************************)
(* POST /api/tts                                                           *)
(***************************************************************************)
TtsRequests ==
    {[NoReq EXCEPT !.handler = "tts", !.voice_settings = v] :
        v \in {Undefined, "custom"}}

TtsFailedError == <<"TTS failed">>

\* lines 94-115: no validation and no credential check precede the fetch
TtsReceive ==
    \E r \in TtsRequests :
        /\ Begin(r)
        /\ res' = FreshRes
        /\ calls' = calls + 1
        /\ outgoing' = <<[name |-> "model", value |-> "eleven_flash_v2_5"],
                         [name |-> "voice_settings",
                          value |-> OrElse(r.voice_settings, "default")]>>
        /\ pc' = "tts-fetch"

\* lines 117-119: whatever the provider answered is sent as audio/mpeg
TtsFetchResolves ==
    /\ pc = "tts-fetch"
    /\ \E a \in HttpAnswers :
        /\ provider' = a
        /\ res' = ResSend(ResSetHeader(res, "audio/mpeg"), a.data)
    /\ pc' = "done"
    /\ UNCHANGED <<env, req, calls, stream, outgoing, uncaught>>

\* lines 120-122: fetch (or reading the body) throws
TtsFetchThrows ==
    /\ pc = "tts-fetch"
    /\ provider' = NetworkFailure
    /\ res' = ResJson(ResStatus(res, 500), ErrorJson(TtsFailedError))
    /\ pc' = "done"
    /\ UNCHANGED <<env, req, calls, stream, outgoing, uncaught>>

(***************************************************************************)
(* POST /api/voice-design                                                  *)
(***************************************************************************)
DescriptionLengths == 0 .. (MaxDescLen + LenSlack)

VoiceDesignRequests ==
    {[NoReq EXCEPT !.handler = "voice-design", !.voice_description = d] :
        d \in {NoDescription} \cup
              {[present |-> TRUE, length |-> n] : n \in DescriptionLengths}}

\* !voice_description
DescriptionMissing(d) == ~d.present \/ d.length = 0

\* faulty validation: off by one at the lower limit
DescriptionLengthInvalid_OffByOne(d) ==
    d.length <= MinDescLen \/ d.length > MaxDescLen

\* voice_description.length < 20 || voice_description.length > 1000
DescriptionLengthInvalid(d) == d.length < MinDescLen \/ d.length > MaxDescLen

DescriptionRequiredError == <<"voice_description is required">>
DescriptionLengthError == <<"voice_description must be between 20-1000 characters">>
ElevenLabsKeyError == <<"Server misconfiguration: ELEVENLABS_API_KEY missing">>

\* lines 127-189
VoiceDesignReceive ==
    \E r \in VoiceDesignRequests :
        /\ Begin(r)
        /\ IF DescriptionMissing(r.voice_description)
           THEN /\ res' = ResJson(ResStatus(FreshRes, 400), ErrorJson(DescriptionRequiredError))
                /\ calls' = 0
                /\ outgoing' = <<>>
                /\ pc' = "done"
           ELSE IF DescriptionLengthInvalid(r.voice_description)
           THEN /\ res' = ResJson(ResStatus(FreshRes, 400), ErrorJson(DescriptionLengthError))
                /\ calls' = 0
                /\ outgoing' = <<>>
                /\ pc' = "done"
           ELSE IF ~env.ELEVENLABS_API_KEY
           THEN /\ res' = ResJson(ResStatus(FreshRes, 500), ErrorJson(ElevenLabsKeyError))
                /\ calls' = 0
                /\ outgoing' = <<>>
                /\ pc' = "done"
           ELSE /\ res' = FreshRes
                /\ calls' = calls + 1
                /\ outgoing' = <<[name |-> "model_id", value |-> "eleven_multilingual_ttv_v2"]>>
                /\ pc' = "voice-fetch"

\* lines 191-198: the provider answered with a non-success status
VoiceDesignFailure(r, a) ==
    ResJson(ResStatus(r, a.status),
            ErrorDetailsJson(<<"Voice design failed: ", StatusText(a.status)>>,
                             <<a.data>>))

\* lines 200-203, and 204-210 when response.json() throws on an empty body
VoiceDesignSuccess(r, a) ==
    IF a.data = ""
    THEN ResJson(ResStatus(r, 500),
                 ErrorDetailsJson(<<"Voice design processing failed">>,
                                  <<"Unexpected end of JSON input">>))
    ELSE ResJson(ResStatus(r, 200), [NoJson EXCEPT !.data = a.data])

VoiceFetchResolves ==
    /\ pc = "voice-fetch"
    /\ \E a \in HttpAnswers :
        /\ provider' = a
        /\ res' = IF ~StatusOk(a.status)
                  THEN VoiceDesignFailure(res, a)
                  ELSE VoiceDesignSuccess(res, a)
    /\ pc' = "done"
    /\ UNCHANGED <<env, req, calls, stream, outgoing, uncaught>>

\* lines 204-210: fetch throws
VoiceFetchThrows ==
    /\ pc = "voice-fetch"
    /\ provider' = NetworkFailure
    /\ res' = ResJson(ResStatus(res, 500),
                      ErrorDetailsJson(<<"Voice design processing failed">>,
                                       NetworkMessage))
    /\ pc' = "done"
    /\ UNCHANGED <<env, req, calls, stream, outgoing, uncaught>>

(***************************************************************************)
(* POST /api/stt                                                           *)
(***************************************************************************)
SttRequests ==
    {[NoReq EXCEPT !.handler = "stt", !.file = f, !.model_id = m,
                   !.language_code = l, !.num_speakers = n, !.diarize = d,
                   !.tag_audio_events = t] :
        f \in BOOLEAN, m \in ModelValues, l \in LangValues,
        n \in SpeakerValues, d \in FlagValues, t \in FlagValues}

NoFileError == <<"No audio file provided">>

\* faulty order: the credential is checked before the file
SttPrecheck_KeyFirst(body, e) ==
    IF ~e.ELEVENLABS_API_KEY THEN "no-key"
    ELSE IF ~body.file THEN "no-file"
    ELSE "ok"

\* lines 217-228: the order of the two early returns
SttPrecheck(body, e) ==
    IF ~body.file THEN "no-file"
    ELSE IF ~e.ELEVENLABS_API_KEY THEN "no-key"
    ELSE "ok"

\* formData.append(name, value) when cond
AppendIf(form, cond, n, v) ==
    IF cond THEN Append(form, [name |-> n, value |-> v]) ELSE form

\* faulty presence check: the boolean flags are tested for truthiness
SttOptionalFields_Truthy(form, body) ==
    LET f1 == AppendIf(form, Truthy(body.language_code), "language_code", body.language_code)
        f2 == AppendIf(f1, Truthy(body.num_speakers), "num_speakers", body.num_speakers)
        f3 == AppendIf(f2, Truthy(body.diarize), "diarize", body.diarize)
    IN  AppendIf(f3, Truthy(body.tag_audio_events), "tag_audio_events",
                 body.tag_audio_events)

\* lines 254-257: the optional fields
SttOptionalFields(form, body) ==
    LET f1 == AppendIf(form, Truthy(body.language_code), "language_code", body.language_code)
        f2 == AppendIf(f1, Truthy(body.num_speakers), "num_speakers", body.num_speakers)
        f3 == AppendIf(f2, body.diarize # Undefined, "diarize", body.diarize)
    IN  AppendIf(f3, body.tag_audio_events # Undefined, "tag_audio_events",
                 body.tag_audio_events)

\* const modelId = req.body.model_id || 'scribe_v1'
modelId(body) == OrElse(body.model_id, "scribe_v1")

\* lines 242-257: the multipart body sent to the provider
SttFormData(body) ==
    SttOptionalFields(<<[name |-> "model_id", value |-> modelId(body)],
                        [name |-> "file", value |-> "audio"]>>, body)

\* lines 215-262
SttReceive ==
    \E r \in SttRequests :
        /\ Begin(r)
        /\ LET check == SttPrecheck(r, env) IN
           IF check = "no-file"
           THEN /\ res' = ResJson(ResStatus(FreshRes, 400), ErrorJson(NoFileError))
                /\ calls' = 0
                /\ outgoing' = <<>>
                /\ pc' = "done"
           ELSE IF check = "no-key"
           THEN /\ res' = ResJson(ResStatus(FreshRes, 500), ErrorJson(ElevenLabsKeyError))
                /\ calls' = 0
                /\ outgoing' = <<>>
                /\ pc' = "done"
           ELSE /\ res' = FreshRes
                /\ calls' = calls + 1
                /\ outgoing' = SttFormData(r)
                /\ pc' = "stt-post"

\* faulty relay: the provider's status is dropped
SttErrorStatus_Always500(a) == 500

\* axiosError.response?.status || 500
SttErrorStatus(a) == IF a.kind = "http" THEN a.status ELSE 500

\* axiosError.response?.data || axiosError.message
SttErrorDetails(a) ==
    IF a.kind = "http"
    THEN IF Truthy(a.data) THEN <<a.data>> ELSE AxiosMessage(a.status)
    ELSE NetworkMessage

\* `Speech-to-text failed: ${axiosError.response?.statusText || axiosError.message}`
SttErrorText(a) ==
    IF a.kind = "http"
    THEN <<"Speech-to-text failed: ", StatusText(a.status)>>
    ELSE <<"Speech-to-text failed: ">> \o NetworkMessage

\* lines 265-275: axios resolves on a 2xx answer
SttPostResolves ==
    /\ pc = "stt-post"
    /\ \E a \in {h \in HttpAnswers : StatusOk(h.status)} :
        /\ provider' = a
        /\ res' = ResJson(ResStatus(res, 200), [NoJson EXCEPT !.data = a.data])
    /\ pc' = "done"
    /\ UNCHANGED <<env, req, calls, stream, outgoing, uncaught>>

\* faulty handler: a call that failed without an answer is made again
SttPostRejects_Retry ==
    /\ pc = "stt-post"
    /\ \E a \in {h \in HttpAnswers : ~StatusOk(h.status)} \cup {NetworkFailure} :
        /\ provider' = a
        /\ IF a.kind = "network" /\ calls < 2
           THEN /\ calls' = calls + 1
                /\ res' = res
                /\ pc' = pc
           ELSE /\ calls' = calls
                /\ res' = ResJson(ResStatus(res, 500), ErrorJson(<<"failed">>))
                /\ pc' = "done"
    /\ UNCHANGED <<env, req, stream, outgoing, uncaught>>

\* lines 277-283: axios rejects, on a non-2xx answer or without any answer
SttPostRejects ==
    /\ pc = "stt-post"
    /\ \E a \in {h \in HttpAnswers : ~StatusOk(h.status)} \cup {NetworkFailure} :
        /\ provider' = a
        /\ res' = ResJson(ResStatus(res, SttErrorStatus(a)),
                          ErrorDetailsJson(SttErrorText(a), SttErrorDetails(a)))
    /\ pc' = "done"
    /\ UNCHANGED <<env, req, calls, stream, outgoing, uncaught>>

(***************************************************************************)
(* The server.                                                             *)
(***************************************************************************)
\* process.env after dotenv.config(): each credential is set or not
Init ==
    /\ env \in [OPENAI_API_KEY : BOOLEAN, ELEVENLABS_API_KEY : BOOLEAN]
    /\ pc = "idle"
    /\ req = NoReq
    /\ res = FreshRes
    /\ calls = 0
    /\ stream = NoStream
    /\ provider = NoProvider
    /\ outgoing = <<>>
    /\ uncaught = Undefined

\* a handler has returned: the response object is dropped and the server
\* waits for the next request (nothing is kept from one request to the next)
Listen ==
    /\ pc = "done"
    /\ pc' = "idle"
    /\ req' = NoReq
    /\ res' = FreshRes
    /\ calls' = 0
    /\ stream' = NoStream
    /\ provider' = NoProvider
    /\ outgoing' = <<>>
    /\ uncaught' = Undefined
    /\ UNCHANGED env

Next ==
    \/ Listen
    \/ ChatReceive
    \/ StreamTextResolves
    \/ StreamTextThrows
    \/ StreamDelta
    \/ StreamEnd
    \/ StreamThrows
    \/ GenerateTextResolves
    \/ GenerateTextThrows
    \/ TtsReceive
    \/ TtsFetchResolves
    \/ TtsFetchThrows
    \/ VoiceDesignReceive
    \/ VoiceFetchResolves
    \/ VoiceFetchThrows
    \/ SttReceive
    \/ SttPostResolves
    \/ SttPostRejects

Spec == Init /\ [][Next]_vars

(***************************************************************************)
(* Properties.                                                             *)
(***************************************************************************)
Returned == pc \in {"done", "rejected"}

IsChat == req.handler \in {"chat-stream", "chat"}

Missing(v) == v = Undefined \/ v = ""

HasField(form, n) == \E i \in 1 .. Len(form) : form[i].name = n

FieldValue(form, n) == form[CHOOSE i \in 1 .. Len(form) : form[i].name = n].value

\* C1: whenever the language-model call of a validated chat request fails,
\* before or after tokens were streamed, the client gets HTTP 200 with
\* { response: "*<playerName> nods thoughtfully*", error: true }.
C1_ChatFallbackOnFailure ==
    (IsChat /\ Returned /\ provider.kind = "network") =>
        /\ res.finished
        /\ res.statusCode = 200
        /\ res.json.response = <<"*", req.playerName, " nods thoughtfully*">>
        /\ res.json.errorFlag
        /\ res.events = <<>>

\* the SSE events tokens ts must arrive as
ExpectedEvents(ts) ==
    [i \in 1 .. Len(ts) |-> <<"data: ", [key |-> "token", value |-> ts[i]], "\n\n">>]

ExpectedDone == <<"data: ", [key |-> "done", value |-> "true"], "\n\n">>

\* C2: the streaming chat handler delivers the upstream tokens t1..tn as n
\* token events in the same order, then exactly one done event, then closes
\* the connection; nothing is written after the done event.
C2_StreamOrder ==
    /\ (req.handler = "chat-stream" /\ pc = "textStream") =>
           /\ res.events = ExpectedEvents(SubSeq(stream.tokens, 1, stream.pos))
           /\ ~res.finished
    /\ (req.handler = "chat-stream" /\ pc = "done" /\ provider.kind = "http") =>
           /\ res.events = ExpectedEvents(stream.tokens) \o <<ExpectedDone>>
           /\ res.finished
    /\ \A i \in 1 .. Len(res.events) :
           res.events[i] = ExpectedDone => (i = Len(res.events) /\ res.finished)

C2_Witness ==
    /\ req.handler = "chat-stream"
    /\ pc = "done"
    /\ provider.kind = "http"
    /\ stream.tokens = <<"Hel", "lo">>
    /\ Len(res.events) = 3

\* C3: a chat request with playerName, playerDescription or mjMessage absent
\* or empty is answered 400 with the message naming the required fields,
\* whether or not the OpenAI credential is set.
C3_ChatValidation ==
    (IsChat /\ (Missing(req.playerName) \/ Missing(req.playerDescription)
                \/ Missing(req.mjMessage))) =>
        /\ pc = "done"
        /\ res.finished
        /\ res.statusCode = 400
        /\ res.json.error =
             <<"Missing required fields: playerName, playerDescription, mjMessage">>
        /\ calls = 0

C3_Witness ==
    /\ req.handler = "chat-stream"
    /\ req.playerName = "Bob"
    /\ req.playerDescription = "text"
    /\ req.mjMessage = ""
    /\ ~env.OPENAI_API_KEY
    /\ res.statusCode = 400

\* C4: on any failure of the synthesis call (network failure or a
\* non-success provider status) /api/tts answers 500 'TTS failed'; 200
\* audio/mpeg is sent only when the provider call succeeded.
C4_TtsFailureIs500 ==
    (req.handler = "tts" /\ pc = "done") =>
        /\ (provider.kind = "network" \/ ~StatusOk(provider.status)) =>
               /\ res.statusCode = 500
               /\ res.json.error = <<"TTS failed">>
               /\ res.contentType # "audio/mpeg"
        /\ (res.statusCode = 200 /\ res.contentType = "audio/mpeg") =>
               (provider.kind = "http" /\ StatusOk(provider.status))

IsRelayWithDetails == req.handler \in {"voice-design", "stt"}

\* C5 as stated: for /api/voice-design and /api/stt a non-success provider
\* status s is relayed as status s with the provider's payload unchanged in
\* details; without any provider response the status is 500.
C5_ProviderErrorVerbatim ==
    (IsRelayWithDetails /\ pc = "done") =>
        /\ (provider.kind = "http" /\ ~StatusOk(provider.status)) =>
               /\ res.statusCode = provider.status
               /\ res.json.details = <<provider.data>>
        /\ provider.kind = "network" => res.statusCode = 500

\* C5 as amended: the status is relayed as stated; details carries the
\* provider's payload unchanged, except that /api/stt replaces an empty
\* payload by the HTTP client's error message.
C5_ProviderErrorRelayed ==
    (IsRelayWithDetails /\ pc = "done") =>
        /\ (provider.kind = "http" /\ ~StatusOk(provider.status)) =>
               /\ res.finished
               /\ res.statusCode = provider.status
               /\ res.json.details =
                    IF req.handler = "stt" /\ provider.data = ""
                    THEN <<"Request failed with status code ", ToString(provider.status)>>
                    ELSE <<provider.data>>
        /\ provider.kind = "network" => (res.finished /\ res.statusCode = 500)

C5_Witness ==
    /\ req.handler = "stt"
    /\ pc = "done"
    /\ provider.kind = "http"
    /\ provider.status = 401
    /\ provider.data = "{payload}"
    /\ res.statusCode = 401

\* C6: a voice_description shorter than 20 or longer than 1000 characters is
\* rejected with 400 before any provider call; one of 20 to 1000 characters
\* is never rejected by the relay with 400 (a 400 can then only be the
\* provider's own answer, relayed).
C6_DescriptionLength ==
    (req.handler = "voice-design" /\ req.voice_description.present) =>
        LET n == req.voice_description.length IN
        /\ (n < 20 \/ n > 1000) =>
               /\ pc = "done"
               /\ res.finished
               /\ res.statusCode = 400
               /\ calls = 0
               /\ provider.kind = "none"
        /\ (n >= 20 /\ n <= 1000) =>
               /\ res.json.error # <<"voice_description is required">>
               /\ res.json.error # <<"voice_description must be between 20-1000 characters">>
               /\ res.statusCode = 400 =>
                      (calls = 1 /\ provider.kind = "http" /\ provider.status = 400)
               /\ (env.ELEVENLABS_API_KEY /\ Returned) => calls = 1

C6_Witness ==
    /\ req.handler = "voice-design"
    /\ req.voice_description = [present |-> TRUE, length |-> 1000]
    /\ pc = "done"
    /\ calls = 1
    /\ res.statusCode = 200

OptionalSttFields == {"language_code", "num_speakers", "diarize", "tag_audio_events"}

Incoming(n) ==
    CASE n = "language_code" -> req.language_code
      [] n = "num_speakers" -> req.num_speakers
      [] n = "diarize" -> req.diarize
      [] n = "tag_audio_events" -> req.tag_audio_events
      [] OTHER -> req.model_id

\* C7 as stated: each optional field is in the outgoing multipart request
\* if and only if it is present on the incoming request; model_id is always
\* forwarded, "scribe_v1" when unspecified.
C7_OptionalIffPresent ==
    (req.handler = "stt" /\ calls = 1) =>
        /\ \A n \in OptionalSttFields :
               HasField(outgoing, n) <=> Incoming(n) # Undefined
        /\ HasField(outgoing, "model_id")
        /\ req.model_id = Undefined => FieldValue(outgoing, "model_id") = "scribe_v1"

\* C7 as amended: language_code and num_speakers are forwarded if and only
\* if present and non-empty, diarize and tag_audio_events if and only if
\* present (an explicit false or an empty value included), each with its
\* incoming value; model_id is always forwarded, "scribe_v1" when absent or
\* empty.
C7_OptionalForwarding ==
    (req.handler = "stt" /\ calls = 1) =>
        /\ \A n \in {"language_code", "num_speakers"} :
               HasField(outgoing, n) <=> ~Missing(Incoming(n))
        /\ \A n \in {"diarize", "tag_audio_events"} :
               HasField(outgoing, n) <=> Incoming(n) # Undefined
        /\ \A n \in OptionalSttFields :
               HasField(outgoing, n) => FieldValue(outgoing, n) = Incoming(n)
        /\ HasField(outgoing, "model_id")
        /\ FieldValue(outgoing, "model_id") =
               IF Missing(req.model_id) THEN "scribe_v1" ELSE req.model_id
        /\ Cardinality({i \in 1 .. Len(outgoing) : outgoing[i].name = "diarize"}) <= 1

C7_Witness ==
    /\ req.handler = "stt"
    /\ calls = 1
    /\ req.diarize = "false"
    /\ req.tag_audio_events = Undefined
    /\ HasField(outgoing, "diarize")
    /\ FieldValue(outgoing, "diarize") = "false"
    /\ ~HasField(outgoing, "tag_audio_events")

\* C8: an /api/stt request without an uploaded file is answered 400 whatever
\* its other fields and whether or not the ElevenLabs credential is set, and
\* no provider call is made.
C8_NoFileIs400 ==
    (req.handler = "stt" /\ ~req.file) =>
        /\ pc = "done"
        /\ res.finished
        /\ res.statusCode = 400
        /\ res.json.error = <<"No audio file provided">>
        /\ calls = 0
        /\ outgoing = <<>>
        /\ provider.kind = "none"

C8_Witness ==
    /\ req.handler = "stt"
    /\ ~req.file
    /\ ~env.ELEVENLABS_API_KEY
    /\ req.diarize = "true"
    /\ req.model_id = "scribe_v2"
    /\ res.statusCode = 400

\* the request passes the validation and the credential check of its handler
PassesChecks ==
    CASE IsChat ->
           /\ ~Missing(req.playerName) /\ ~Missing(req.playerDescription)
           /\ ~Missing(req.mjMessage) /\ env.OPENAI_API_KEY
      [] req.handler = "tts" -> TRUE
      [] req.handler = "voice-design" ->
           /\ req.voice_description.present
           /\ req.voice_description.length >= 20
           /\ req.voice_description.length <= 1000
           /\ env.ELEVENLABS_API_KEY
      [] req.handler = "stt" -> req.file /\ env.ELEVENLABS_API_KEY
      [] OTHER -> FALSE

\* C9: no retries: a request triggers at most one provider call; exactly one
\* when it passes validation and the credential check, even when that call
\* fails, and none when it is rejected with 400 or a configuration 500.
C9_NoRetries ==
    /\ calls <= 1
    /\ (req.handler # "none" /\ PassesChecks) => calls = 1
    /\ (req.handler # "none" /\ ~PassesChecks) =>
           (calls = 0 /\ provider.kind = "none" /\ res.statusCode \in {400, 500})
    /\ provider.kind # "none" => calls = 1

C9_Witness ==
    /\ req.handler = "stt"
    /\ pc = "done"
    /\ provider.kind = "network"
    /\ calls = 1

\* C10: every request gets exactly one complete response: no handler starts
\* a response (status + JSON body) after headers or body bytes were written,
\* and every handler that returns has ended its response.
C10_OneCompleteResponse ==
    /\ uncaught = Undefined
    /\ Returned => res.finished
    /\ res.finished => Returned

====
